---- MODULE Spec2Model ----
(***************************************************************************)
(* Model of src/multimodal_perceiver/train.py: the subsampling generator,  *)
(* the train / validation steps, the two test evaluations and the          *)
(* early-stopping training loop.                                           *)
(*                                                                         *)
(* Numbers.  Losses and F1 scores are floats in the code.  A per-batch     *)
(* value is modelled as an integer count of a fixed unit (F1 in tenths),   *)
(* and a quotient computed by the code (sum / len(dataloader), f1_score)   *)
(* as the exact fraction [num, den], compared by cross-multiplication.     *)
(*                                                                         *)
(* A batch of train_step / val_step is modelled by what the opaque         *)
(* callables return on it: loss = loss_fn(y_pred, y).item() and            *)
(* f1 = f1_score(...) of that batch.  A batch of the test evaluations is   *)
(* the sequence of its samples, each the pair of argmax labels.            *)
(***************************************************************************)
EXTENDS Integers, Sequences, FiniteSets

\* ---------------------------------------------------------------- bounds
MaxEpochs == 3
MaxPatience == 2
MaxBatches == 2
MaxBatchSize == 2
MaxSamples == 3
NumClasses == 2
MaxChunks == 3
MaxSpp == 2
MaxDim == 2
MaxRank == 4

\* per-batch outcomes fed to train(): what loss_fn / f1_score return
TrainBatchVals == {[loss |-> 2, f1 |-> 3]}
ValBatchVals == {[loss |-> 3, f1 |-> 0], [loss |-> 1, f1 |-> 5]}
\* per-batch outcomes fed to a single train_step / val_step
StepBatchVals == [loss : {1, 2, 4}, f1 : {0, 3, 5}]
\* a sample of a test batch: argmax of its label and of its logits
Samples == [gold : 0..(NumClasses - 1), pred : 0..(NumClasses - 1)]

VARIABLES
    pc,                 \* position in the function being run
    epochs, patience,   \* arguments of train()
    train_len, val_len, \* len(train_dataloader), len(val_dataloader)
    epoch,              \* loop variable of train(): index of the next epoch
    train_losses, val_losses, train_fscores, val_fscores,
    prev_val_score, no_improv_epochs,
    avg_train_loss, avg_train_f1, avg_val_loss, avg_val_f1,
    train_calls, val_calls,   \* number of train_step / val_step calls returned
    val_hist,           \* the avg_val_f1 returned by each val_step call, in order
    optimizer,          \* number of optimizer.step() updates applied
    wandb,              \* the observations sent to wandb.log, in order
    batches,            \* the dataloader given to train_step / val_step / test_step / test_for_eval
    step_calls,         \* calls made by the train_step / val_step that ran, in order
    step_ret,           \* values returned by train_step / val_step (<<>> before it returns)
    test_ret, test_calls,     \* values returned by test_step, and the calls it made
    eval_ret, eval_calls,     \* values returned by test_for_eval, and the calls it made
    nchunks, samples_per_patch, im_shape, au_shape,   \* arguments of generate_subsampling
    chunk_idx, subsampling                            \* its local and its return value

trainVars == <<epochs, patience, train_len, val_len, epoch,
               train_losses, val_losses, train_fscores, val_fscores,
               prev_val_score, no_improv_epochs,
               avg_train_loss, avg_train_f1, avg_val_loss, avg_val_f1,
               train_calls, val_calls, val_hist>>
stepVars == <<batches, step_calls, step_ret>>
testVars == <<test_ret, test_calls, eval_ret, eval_calls>>
subVars == <<nchunks, samples_per_patch, im_shape, au_shape, chunk_idx, subsampling>>

vars == <<pc, trainVars, optimizer, wandb, stepVars, testVars, subVars>>

\* Python None, also standing for a local that is not bound yet
None == "None"

\* ------------------------------------------------------------- fractions
Rat(n, d) == [num |-> n, den |-> d]
Zero == Rat(0, 1)
RatLess(a, b) == a.num * b.den < b.num * a.den
RatEq(a, b) == a.num * b.den = b.num * a.den

\* all sequences over S of length exactly n
SeqsOfLen(S, n) == [1..n -> S]

\* ------------------------------------------------ train_step and val_step
\* train_step with "train_loss = loss.item()" in place of "+=" (lines 44, 51)
TrainBatchAssign(st, batch) ==
    [train_loss   |-> batch.loss,
     train_fscore |-> batch.f1,
     calls        |-> st.calls \o <<"model", "loss_fn", "zero_grad", "backward",
                                    "step", "f1_score", "wandb.log">>,
     logs         |-> Append(st.logs, batch.loss)]

\* body of the for loop of train_step, lines 37-53
TrainBatch(st, batch) ==
    [train_loss   |-> st.train_loss + batch.loss,
     train_fscore |-> st.train_fscore + batch.f1,
     calls        |-> st.calls \o <<"model", "loss_fn", "zero_grad", "backward",
                                    "step", "f1_score", "wandb.log">>,
     logs         |-> Append(st.logs, batch.loss)]

RECURSIVE TrainLoop(_, _, _)
TrainLoop(dataloader, i, st) ==
    IF i > Len(dataloader) THEN st
    ELSE TrainLoop(dataloader, i + 1, TrainBatch(st, dataloader[i]))

train_step(dataloader) ==
    LET st == TrainLoop(dataloader, 1,
                        [train_loss |-> 0, train_fscore |-> 0,
                         calls |-> <<"model.train">>, logs |-> <<>>])
    IN [avg_loss |-> Rat(st.train_loss, Len(dataloader)),
        avg_f1   |-> Rat(st.train_fscore, Len(dataloader)),
        calls    |-> st.calls,
        logs     |-> st.logs]

\* val_step with the optimizer update and the per-batch log of train_step left in
ValBatchWithUpdate(st, batch) ==
    [val_loss   |-> st.val_loss + batch.loss,
     val_fscore |-> st.val_fscore + batch.f1,
     calls      |-> st.calls \o <<"model", "loss_fn", "zero_grad", "backward",
                                  "step", "f1_score", "wandb.log">>,
     logs       |-> Append(st.logs, batch.loss)]

\* body of the for loop of val_step, lines 72-83
ValBatch(st, batch) ==
    [val_loss   |-> st.val_loss + batch.loss,
     val_fscore |-> st.val_fscore + batch.f1,
     calls      |-> st.calls \o <<"model", "loss_fn", "f1_score">>,
     logs       |-> st.logs]

RECURSIVE ValLoop(_, _, _)
ValLoop(dataloader, i, st) ==
    IF i > Len(dataloader) THEN st
    ELSE ValLoop(dataloader, i + 1, ValBatch(st, dataloader[i]))

val_step(dataloader) ==
    LET st == ValLoop(dataloader, 1,
                      [val_loss |-> 0, val_fscore |-> 0,
                       calls |-> <<"model.eval", "inference_mode">>, logs |-> <<>>])
    IN [avg_loss |-> Rat(st.val_loss, Len(dataloader)),
        avg_f1   |-> Rat(st.val_fscore, Len(dataloader)),
        calls    |-> st.calls,
        logs     |-> st.logs]

\* number of occurrences of call c in a call trace
RECURSIVE CountCalls(_, _)
CountCalls(trace, c) ==
    IF trace = <<>> THEN 0
    ELSE (IF Head(trace) = c THEN 1 ELSE 0) + CountCalls(Tail(trace), c)

\* the per-batch observations {"batch train loss": loss} of one train_step
BatchLogs(logs) == [i \in 1..Len(logs) |-> [key |-> "batch train loss", loss |-> logs[i]]]

\* ------------------------------------------------------------------ train
\* lines 139-142: the locals of train() before the first epoch
TrainLocals ==
    /\ epoch = 0
    /\ train_losses = <<>> /\ val_losses = <<>>
    /\ train_fscores = <<>> /\ val_fscores = <<>>
    /\ prev_val_score = Zero
    /\ no_improv_epochs = 0
    /\ avg_train_loss = Zero /\ avg_train_f1 = Zero
    /\ avg_val_loss = Zero /\ avg_val_f1 = Zero
    /\ train_calls = 0 /\ val_calls = 0
    /\ val_hist = <<>>

\* a function that is not being run holds nothing
IdleTrain ==
    /\ epochs = 0 /\ patience = 1 /\ train_len = 1 /\ val_len = 1
    /\ TrainLocals
IdleStep == step_calls = <<>> /\ step_ret = <<>>
IdleTest == test_ret = <<>> /\ test_calls = <<>> /\ eval_ret = <<>> /\ eval_calls = <<>>
IdleSub ==
    /\ nchunks = 1 /\ samples_per_patch = 1
    /\ im_shape = <<>> /\ au_shape = <<>>
    /\ chunk_idx = None /\ subsampling = None

\* train(model, train_dataloader, val_dataloader, optimizer, loss_fn, epochs, device, patience)
Init ==
    /\ pc = "loop"
    /\ epochs \in 0..MaxEpochs
    /\ patience \in 1..MaxPatience
    /\ train_len \in 1..MaxBatches
    /\ val_len \in 1..MaxBatches
    /\ TrainLocals
    /\ optimizer = 0
    /\ wandb = <<>>
    /\ batches = <<>>
    /\ IdleStep /\ IdleTest /\ IdleSub

\* the loop running one epoch too many: range(epochs + 1)
LoopHeadExtra ==
    /\ pc = "loop"
    /\ pc' = IF epoch <= epochs THEN "train_step" ELSE "COMPLETED"
    /\ UNCHANGED <<trainVars, optimizer, wandb, stepVars, testVars, subVars>>

\* line 144: for epoch in range(epochs); falling out of the loop is line 173
LoopHead ==
    /\ pc = "loop"
    /\ pc' = IF epoch < epochs THEN "train_step" ELSE "COMPLETED"
    /\ UNCHANGED <<epochs, patience, train_len, val_len, epoch,
                   train_losses, val_losses, train_fscores, val_fscores,
                   prev_val_score, no_improv_epochs,
                   avg_train_loss, avg_train_f1, avg_val_loss, avg_val_f1,
                   train_calls, val_calls, val_hist, optimizer, wandb,
                   stepVars, testVars, subVars>>

\* lines 145-149
TrainStepCall ==
    /\ pc = "train_step"
    /\ \E dataloader \in SeqsOfLen(TrainBatchVals, train_len) :
         LET r == train_step(dataloader) IN
           /\ avg_train_loss' = r.avg_loss
           /\ avg_train_f1' = r.avg_f1
           /\ optimizer' = optimizer + CountCalls(r.calls, "step")
           /\ wandb' = wandb \o BatchLogs(r.logs)
    /\ train_calls' = train_calls + 1
    /\ pc' = "val_step"
    /\ UNCHANGED <<epochs, patience, train_len, val_len, epoch,
                   train_losses, val_losses, train_fscores, val_fscores,
                   prev_val_score, no_improv_epochs,
                   avg_val_loss, avg_val_f1, val_calls, val_hist,
                   stepVars, testVars, subVars>>

\* lines 152-156
ValStepCall ==
    /\ pc = "val_step"
    /\ \E dataloader \in SeqsOfLen(ValBatchVals, val_len) :
         LET r == val_step(dataloader) IN
           /\ avg_val_loss' = r.avg_loss
           /\ avg_val_f1' = r.avg_f1
           /\ val_hist' = Append(val_hist, r.avg_f1)
           /\ optimizer' = optimizer + CountCalls(r.calls, "step")
           /\ wandb' = wandb \o BatchLogs(r.logs)
    /\ val_calls' = val_calls + 1
    /\ pc' = "update"
    /\ UNCHANGED <<epochs, patience, train_len, val_len, epoch,
                   train_losses, val_losses, train_fscores, val_fscores,
                   prev_val_score, no_improv_epochs,
                   avg_train_loss, avg_train_f1, train_calls,
                   stepVars, testVars, subVars>>

\* the comparison of line 157 written "<=": an equal score counts as no improvement
UpdateStopLeq ==
    /\ pc = "update"
    /\ no_improv_epochs' = IF ~RatLess(prev_val_score, avg_val_f1)
                           THEN no_improv_epochs + 1 ELSE no_improv_epochs
    /\ prev_val_score' = avg_val_f1
    /\ pc' = "check"
    /\ UNCHANGED <<epochs, patience, train_len, val_len, epoch,
                   train_losses, val_losses, train_fscores, val_fscores,
                   avg_train_loss, avg_train_f1, avg_val_loss, avg_val_f1,
                   train_calls, val_calls, val_hist, optimizer, wandb,
                   stepVars, testVars, subVars>>

\* lines 157-159
UpdateStop ==
    /\ pc = "update"
    /\ no_improv_epochs' = IF RatLess(avg_val_f1, prev_val_score)
                           THEN no_improv_epochs + 1 ELSE no_improv_epochs
    /\ prev_val_score' = avg_val_f1
    /\ pc' = "check"
    /\ UNCHANGED <<epochs, patience, train_len, val_len, epoch,
                   train_losses, val_losses, train_fscores, val_fscores,
                   avg_train_loss, avg_train_f1, avg_val_loss, avg_val_f1,
                   train_calls, val_calls, val_hist, optimizer, wandb,
                   stepVars, testVars, subVars>>

\* the comparison of line 161 written ">": one more bad epoch is tolerated
CheckStopLate ==
    /\ pc = "check"
    /\ pc' = IF no_improv_epochs > patience THEN "STOPPED" ELSE "append"
    /\ UNCHANGED <<trainVars, optimizer, wandb, stepVars, testVars, subVars>>

\* lines 161-162
CheckStop ==
    /\ pc = "check"
    /\ pc' = IF no_improv_epochs >= patience THEN "STOPPED" ELSE "append"
    /\ UNCHANGED <<epochs, patience, train_len, val_len, epoch,
                   train_losses, val_losses, train_fscores, val_fscores,
                   prev_val_score, no_improv_epochs,
                   avg_train_loss, avg_train_f1, avg_val_loss, avg_val_f1,
                   train_calls, val_calls, val_hist, optimizer, wandb,
                   stepVars, testVars, subVars>>

\* lines 164-167
AppendMetrics ==
    /\ pc = "append"
    /\ train_losses' = Append(train_losses, avg_train_loss)
    /\ train_fscores' = Append(train_fscores, avg_train_f1)
    /\ val_losses' = Append(val_losses, avg_val_loss)
    /\ val_fscores' = Append(val_fscores, avg_val_f1)
    /\ pc' = "log"
    /\ UNCHANGED <<epochs, patience, train_len, val_len, epoch,
                   prev_val_score, no_improv_epochs,
                   avg_train_loss, avg_train_f1, avg_val_loss, avg_val_f1,
                   train_calls, val_calls, val_hist, optimizer, wandb,
                   stepVars, testVars, subVars>>

\* lines 169-171, then back to the head of the loop with the next epoch
LogEpoch ==
    /\ pc = "log"
    /\ wandb' = Append(wandb, [key |-> "epoch", epoch |-> epoch,
                               train_loss |-> avg_train_loss, val_loss |-> avg_val_loss,
                               train_f1 |-> avg_train_f1, val_f1 |-> avg_val_f1])
    /\ epoch' = epoch + 1
    /\ pc' = "loop"
    /\ UNCHANGED <<epochs, patience, train_len, val_len,
                   train_losses, val_losses, train_fscores, val_fscores,
                   prev_val_score, no_improv_epochs,
                   avg_train_loss, avg_train_f1, avg_val_loss, avg_val_f1,
                   train_calls, val_calls, val_hist, optimizer,
                   stepVars, testVars, subVars>>

Next ==
    \/ LoopHead
    \/ TrainStepCall
    \/ ValStepCall
    \/ UpdateStop
    \/ CheckStop
    \/ AppendMetrics
    \/ LogEpoch

Spec == Init /\ [][Next]_vars

\* train() is one sequential call: a step that can be taken is taken
FairSpec == Spec /\ WF_vars(Next)

Terminated == pc \in {"STOPPED", "COMPLETED"}

\* ----------------------------------------- one train_step / one val_step
\* all dataloaders of 1..MaxBatches batches over the batch values S
Loaders(S) == UNION {SeqsOfLen(S, n) : n \in 1..MaxBatches}

InitStep ==
    /\ pc = "step"
    /\ batches \in Loaders(StepBatchVals)
    /\ optimizer = 0
    /\ wandb = <<>>
    /\ IdleTrain /\ IdleStep /\ IdleTest /\ IdleSub

\* train_step(model, dataloader, loss_fn, optimizer, device), lines 26-57
RunTrainStep ==
    /\ pc = "step"
    /\ LET r == train_step(batches) IN
         /\ step_ret' = <<r.avg_loss, r.avg_f1>>
         /\ step_calls' = r.calls
         /\ optimizer' = optimizer + CountCalls(r.calls, "step")
         /\ wandb' = wandb \o BatchLogs(r.logs)
    /\ pc' = "train_done"
    /\ UNCHANGED <<trainVars, batches, testVars, subVars>>

\* val_step(model, dataloader, loss_fn, optimizer, device), lines 60-87
RunValStep ==
    /\ pc = "step"
    /\ LET r == val_step(batches) IN
         /\ step_ret' = <<r.avg_loss, r.avg_f1>>
         /\ step_calls' = r.calls
         /\ optimizer' = optimizer + CountCalls(r.calls, "step")
         /\ wandb' = wandb \o BatchLogs(r.logs)
    /\ pc' = "val_done"
    /\ UNCHANGED <<trainVars, batches, testVars, subVars>>

NextStep ==
    \/ RunTrainStep
    \/ RunValStep

SpecStep == InitStep /\ [][NextStep]_vars

\* ------------------------------------------------------ test evaluations
RatAdd(a, b) == Rat(a.num * b.den + b.num * a.den, a.den * b.den)

\* F1 of class c: 2tp / (2tp + fp + fn), 0 for a class that never occurs
ClassF1(c, gold, pred) ==
    LET idx == 1..Len(gold)
        tp == Cardinality({i \in idx : gold[i] = c /\ pred[i] = c})
        fp == Cardinality({i \in idx : gold[i] # c /\ pred[i] = c})
        fn == Cardinality({i \in idx : gold[i] = c /\ pred[i] # c})
    IN IF 2 * tp + fp + fn = 0 THEN Zero ELSE Rat(2 * tp, 2 * tp + fp + fn)

Support(c, gold) == Cardinality({i \in 1..Len(gold) : gold[i] = c})

\* sum over the classes 0..c of support * F1
RECURSIVE WeightedF1Sum(_, _, _)
WeightedF1Sum(c, gold, pred) ==
    IF c < 0 THEN Zero
    ELSE LET f == ClassF1(c, gold, pred)
         IN RatAdd(WeightedF1Sum(c - 1, gold, pred),
                   Rat(Support(c, gold) * f.num, f.den))

\* sklearn f1_score(gold, pred, average='weighted')
f1_score(gold, pred) ==
    LET t == WeightedF1Sum(NumClasses - 1, gold, pred)
    IN Rat(t.num, t.den * Len(gold))

\* body of the for loop of test_step, lines 96-104
TestBatch(st, batch) ==
    [pred  |-> st.pred \o [i \in 1..Len(batch) |-> batch[i].pred],
     gold  |-> st.gold \o [i \in 1..Len(batch) |-> batch[i].gold],
     calls |-> st.calls \o <<"model">>]

RECURSIVE TestLoop(_, _, _)
TestLoop(dataloader, i, st) ==
    IF i > Len(dataloader) THEN st
    ELSE TestLoop(dataloader, i + 1, TestBatch(st, dataloader[i]))

\* test_step returning the mean of the per-batch scores, as train_step / val_step do
RECURSIVE BatchF1Sum(_, _)
BatchF1Sum(dataloader, i) ==
    IF i > Len(dataloader) THEN Zero
    ELSE LET st == TestBatch([gold |-> <<>>, pred |-> <<>>, calls |-> <<>>], dataloader[i])
         IN RatAdd(f1_score(st.gold, st.pred), BatchF1Sum(dataloader, i + 1))

test_step_batch_mean(dataloader) ==
    LET t == BatchF1Sum(dataloader, 1)
        st == TestLoop(dataloader, 1,
                       [gold |-> <<>>, pred |-> <<>>, calls |-> <<"inference_mode">>])
    IN [test_acc |-> Rat(t.num, t.den * Len(dataloader)),
        calls    |-> Append(st.calls, "f1_score")]

test_step(dataloader) ==
    LET st == TestLoop(dataloader, 1,
                       [gold |-> <<>>, pred |-> <<>>, calls |-> <<"inference_mode">>])
    IN [test_acc |-> f1_score(st.gold, st.pred),
        calls    |-> Append(st.calls, "f1_score")]

\* body of the for loop of test_for_eval, lines 115-123
EvalBatch(st, batch) ==
    [pred  |-> st.pred \o [i \in 1..Len(batch) |-> batch[i].pred],
     gold  |-> st.gold \o [i \in 1..Len(batch) |-> batch[i].gold],
     calls |-> st.calls \o <<"model">>]

RECURSIVE EvalLoop(_, _, _)
EvalLoop(dataloader, i, st) ==
    IF i > Len(dataloader) THEN st
    ELSE EvalLoop(dataloader, i + 1, EvalBatch(st, dataloader[i]))

test_for_eval(dataloader) ==
    LET st == EvalLoop(dataloader, 1,
                       [gold |-> <<>>, pred |-> <<>>, calls |-> <<"inference_mode">>])
    IN [test_acc |-> f1_score(st.gold, st.pred),
        gold     |-> st.gold,
        pred     |-> st.pred,
        calls    |-> Append(st.calls, "f1_score")]

\* the batches a DataLoader of batch size k yields over the samples: k at a
\* time in order, the last batch holding what is left
Batched(samples, k) ==
    [i \in 1..((Len(samples) + k - 1) \div k) |->
        SubSeq(samples, (i - 1) * k + 1,
               IF i * k < Len(samples) THEN i * k ELSE Len(samples))]

\* the test dataloaders: 1..MaxSamples samples in batches of up to MaxBatchSize
TestLoaders ==
    {Batched(samples, k) :
        samples \in UNION {SeqsOfLen(Samples, n) : n \in 1..MaxSamples},
        k \in 1..MaxBatchSize}

InitTest ==
    /\ pc = "test"
    /\ batches \in TestLoaders
    /\ optimizer = 0
    /\ wandb = <<>>
    /\ IdleTrain /\ IdleStep /\ IdleTest /\ IdleSub

\* test_step(model, dataloader, device), lines 90-107
TestStepCall ==
    /\ pc = "test"
    /\ test_ret = <<>>
    /\ LET r == test_step(batches) IN
         /\ test_ret' = <<r.test_acc>>
         /\ test_calls' = r.calls
         /\ optimizer' = optimizer + CountCalls(r.calls, "step")
    /\ UNCHANGED <<pc, trainVars, wandb, stepVars, eval_ret, eval_calls, subVars>>

\* test_for_eval(model, dataloader, device), lines 109-126
TestForEvalCall ==
    /\ pc = "test"
    /\ eval_ret = <<>>
    /\ LET r == test_for_eval(batches) IN
         /\ eval_ret' = <<r.test_acc, r.gold, r.pred>>
         /\ eval_calls' = r.calls
         /\ optimizer' = optimizer + CountCalls(r.calls, "step")
    /\ UNCHANGED <<pc, trainVars, wandb, stepVars, test_ret, test_calls, subVars>>

NextTest ==
    \/ TestStepCall
    \/ TestForEvalCall

SpecTest == InitTest /\ [][NextTest]_vars

\* --------------------------------------------------- generate_subsampling
\* tensor shapes of rank lo..hi with every dimension in 1..MaxDim
Shapes(lo, hi) == UNION {SeqsOfLen(1..MaxDim, r) : r \in lo..hi}

\* np.prod(shape[a:b]) for 0-based slice bounds 0 <= a, b <= len: elements a+1..b
RECURSIVE Prod(_, _, _)
Prod(shape, a, b) ==
    IF a >= b THEN 1 ELSE shape[a + 1] * Prod(shape, a + 1, b)

\* torch.arange(a, b): a, a+1, ..., b-1
Arange(a, b) == [i \in 1..(IF b > a THEN b - a ELSE 0) |-> a + i - 1]

\* random.randint(a, b): any integer of a..b, both ends included
RandInt(a, b) == a..b

\* the slice of line 14 written im_shape[1:]: the last dimension is multiplied in
ImageChunkSizeWithLast(n, shape) == Prod(shape, 1, Len(shape)) \div n

\* line 14: np.prod(im_shape[1:-1]) // nchunks
ImageChunkSize(n, shape) == Prod(shape, 1, Len(shape) - 1) \div n

\* line 15: au_shape[1] // samples_per_patch // nchunks
AudioChunkSize(n, spp, shape) == (shape[2] \div spp) \div n

\* lines 16-22
Subsampling(idx, n, spp, ishape, ashape) ==
    LET image_chunk_size == ImageChunkSize(n, ishape)
        audio_chunk_size == AudioChunkSize(n, spp, ashape)
    IN [image |-> Arange(image_chunk_size * idx, image_chunk_size * (idx + 1)),
        audio |-> Arange(audio_chunk_size * idx, audio_chunk_size * (idx + 1)),
        label |-> None]

InitSub ==
    /\ pc = "sub"
    /\ nchunks \in 1..MaxChunks
    /\ samples_per_patch \in 1..MaxSpp
    /\ im_shape \in Shapes(2, MaxRank)
    /\ au_shape \in Shapes(2, 3)
    /\ chunk_idx = None /\ subsampling = None
    /\ optimizer = 0
    /\ wandb = <<>>
    /\ batches = <<>>
    /\ IdleTrain /\ IdleStep /\ IdleTest

\* generate_subsampling(nchunks, samples_per_patch, im_shape, au_shape), lines 11-24
generate_subsampling ==
    /\ pc = "sub"
    /\ \E idx \in RandInt(0, nchunks) :
         /\ chunk_idx' = idx
         /\ subsampling' = Subsampling(idx, nchunks, samples_per_patch, im_shape, au_shape)
    /\ pc' = "sub_done"
    /\ UNCHANGED <<trainVars, optimizer, wandb, stepVars, testVars,
                   nchunks, samples_per_patch, im_shape, au_shape>>

NextSub == generate_subsampling

SpecSub == InitSub /\ [][NextSub]_vars

\* ================================================================ claims
\* the observations {"train loss": ..., "epoch": ...} of line 169 sent to wandb so far
EpochLogs == SelectSeq(wandb, LAMBDA o : o.key = "epoch")

\* C1: the early-stop counter equals the number of epochs so far whose
\* validation F1 was strictly below the previous epoch's (0 before the first
\* epoch), so it goes up by one in exactly those epochs and never down; and
\* train() halts at the first epoch at which that number reaches patience,
\* and at no other.
C1_CounterAndHalt ==
    LET Prev(h, i) == IF i = 1 THEN Zero ELSE h[i - 1]
        Drops(h) == Cardinality({i \in 1..Len(h) : RatLess(h[i], Prev(h, i))})
        n == Len(val_hist)
        \* at "update" the epoch just validated has not been counted yet
        counted == IF pc = "update" THEN SubSeq(val_hist, 1, n - 1) ELSE val_hist
    IN /\ no_improv_epochs = Drops(counted)
       /\ pc = "STOPPED" =>
            /\ n >= 1
            /\ Drops(val_hist) >= patience
            /\ Drops(SubSeq(val_hist, 1, n - 1)) < patience
       /\ pc \notin {"STOPPED", "check"} => Drops(counted) < patience

\* val F1 0.5 then a lower one with patience 1: halted in the second epoch
C1_Witness ==
    /\ pc = "STOPPED"
    /\ patience = 1
    /\ val_hist = <<Rat(5, 1), Rat(0, 1)>>
    /\ train_calls = 2 /\ val_calls = 2
    /\ no_improv_epochs = 1

\* C2: between epochs and at the end of train(), every epoch whose train and
\* validation steps have run has its four metrics appended and its metrics
\* logged, the epoch at which early stopping triggers included.
C2_MetricsEveryEpoch ==
    pc \in {"loop", "STOPPED", "COMPLETED"} =>
        /\ train_calls = val_calls
        /\ Len(train_losses) = val_calls
        /\ Len(train_fscores) = val_calls
        /\ Len(val_losses) = val_calls
        /\ Len(val_fscores) = val_calls
        /\ Len(EpochLogs) = val_calls

\* C3: train() terminates, having run at most `epochs` epochs; it ends STOPPED
\* with the counter at patience or above, and COMPLETED with all `epochs` epochs
\* run and the counter below patience; in either end state no train step,
\* validation step, optimizer update, metric append or log happens any more.
C3_Terminates ==
    /\ [](/\ train_calls <= epochs
          /\ val_calls <= epochs
          /\ pc = "STOPPED" => no_improv_epochs >= patience
          /\ pc = "COMPLETED" =>
               /\ train_calls = epochs /\ val_calls = epochs
               /\ no_improv_epochs < patience)
    /\ <>Terminated
    /\ [][Terminated =>
            /\ Terminated'
            /\ train_calls' = train_calls /\ val_calls' = val_calls
            /\ optimizer' = optimizer /\ wandb' = wandb
            /\ train_losses' = train_losses /\ train_fscores' = train_fscores
            /\ val_losses' = val_losses /\ val_fscores' = val_fscores]_vars

\* all of two epochs run, one of them non-improving, under a patience of 2
C3_Witness ==
    /\ pc = "COMPLETED"
    /\ epochs = 2 /\ patience = 2
    /\ train_calls = 2 /\ val_calls = 2
    /\ no_improv_epochs = 1

\* C4: after every epoch the counter is the length of the current unbroken run
\* of non-improving epochs: an improving epoch brings it back to 0.
C4_ConsecutiveCount ==
    LET Prev(h, i) == IF i = 1 THEN Zero ELSE h[i - 1]
        Bad(h, i) == RatLess(h[i], Prev(h, i))
        n == Len(val_hist)
        \* the epochs k..n are all non-improving
        RunFrom(k) == \A i \in k..n : Bad(val_hist, i)
        run == Cardinality({k \in 1..n : RunFrom(k)})
    IN pc \in {"check", "append", "log", "loop", "STOPPED", "COMPLETED"} =>
         no_improv_epochs = run

\* C10: with validation F1 never negative, the first epoch leaves the counter
\* at 0 and does not stop the run, so a run that stops early, or that ends
\* with epochs >= 1, has recorded and logged its first epoch's metrics.
C10_FirstEpochRecorded ==
    /\ val_calls = 1 => no_improv_epochs = 0 /\ pc # "STOPPED"
    /\ (pc = "STOPPED" \/ (pc = "COMPLETED" /\ epochs >= 1)) =>
         /\ Len(val_fscores) >= 1 /\ Len(train_losses) >= 1
         /\ Len(train_fscores) >= 1 /\ Len(val_losses) >= 1
         /\ Len(EpochLogs) >= 1
         /\ val_fscores[1] = val_hist[1]
         /\ EpochLogs[1].epoch = 0 /\ EpochLogs[1].val_f1 = val_hist[1]

\* a first epoch with validation F1 0, equal to the initial previous score,
\* has been appended and logged
C10_Witness ==
    /\ pc = "loop"
    /\ val_calls = 1
    /\ val_hist[1].num = 0
    /\ Len(val_fscores) = 1 /\ Len(EpochLogs) = 1

\* C5: generate_subsampling picks chunk_idx in 0..nchunks and returns for
\* image the indices image_chunk_size*idx .. image_chunk_size*(idx+1) - 1 in
\* increasing order, image_chunk_size being the product of the image shape's
\* dimensions other than the first and the last, div nchunks; for audio the
\* same with audio_chunk_size = (au_shape[1] div samples_per_patch) div
\* nchunks and the same idx; and None for label.
C5_ChunkRanges ==
    LET mid == {d \in 1..Len(im_shape) : d # 1 /\ d # Len(im_shape)}
        \* product of im_shape over the positions of D, largest position first
        P[D \in SUBSET mid] ==
            IF D = {} THEN 1
            ELSE LET d == CHOOSE x \in D : \A y \in D : y <= x
                 IN im_shape[d] * P[D \ {d}]
        ics == P[mid] \div nchunks
        acs == (au_shape[2] \div samples_per_patch) \div nchunks
        IsRange(r, lo, hi) ==
            /\ Len(r) = (IF hi > lo THEN hi - lo ELSE 0)
            /\ \A i \in 1..Len(r) : r[i] = lo + (i - 1)
    IN pc = "sub_done" =>
         /\ chunk_idx \in 0..nchunks
         /\ IsRange(subsampling.image, ics * chunk_idx, ics * (chunk_idx + 1))
         /\ IsRange(subsampling.audio, acs * chunk_idx, acs * (chunk_idx + 1))
         /\ subsampling.label = None

\* the boundary index chunk_idx = nchunks is chosen and both ranges are non-empty
C5_Witness ==
    /\ pc = "sub_done"
    /\ chunk_idx = nchunks
    /\ nchunks = 2
    /\ im_shape = <<1, 2, 2, 1>>
    /\ Len(subsampling.image) = 2
    /\ Len(subsampling.audio) = 1

\* C6: the image (audio) ranges of the chunk indices generate_subsampling can
\* choose are pairwise disjoint and their union is 0 .. chunk_size*nchunks - 1.
C6_Partition ==
    LET Elems(r) == {r[i] : i \in 1..Len(r)}
        Of(idx) == Subsampling(idx, nchunks, samples_per_patch, im_shape, au_shape)
        choosable == RandInt(0, nchunks)
        ics == ImageChunkSize(nchunks, im_shape)
        acs == AudioChunkSize(nchunks, samples_per_patch, au_shape)
    IN pc = "sub_done" =>
         /\ \A i, j \in choosable : i # j =>
              /\ Elems(Of(i).image) \cap Elems(Of(j).image) = {}
              /\ Elems(Of(i).audio) \cap Elems(Of(j).audio) = {}
         /\ UNION {Elems(Of(i).image) : i \in choosable} = 0..(ics * nchunks - 1)
         /\ UNION {Elems(Of(i).audio) : i \in choosable} = 0..(acs * nchunks - 1)
         /\ chunk_idx \in choosable
         /\ Elems(subsampling.image) \subseteq 0..(ics * nchunks - 1)
         /\ Elems(subsampling.audio) \subseteq 0..(acs * nchunks - 1)

\* C7: val_step makes no zero_grad, step or wandb.log call, leaves the
\* optimizer and the metrics sink as they were and puts the model in
\* evaluation mode; train_step makes for each batch exactly zero_grad,
\* backward, step and then one wandb.log of that batch's loss, in this order;
\* otherwise both make the same calls per batch.
C7_StepEffects ==
    LET n == Len(batches)
        pattern == <<"zero_grad", "backward", "step", "wandb.log">>
        Upd(c) == c \in {"zero_grad", "backward", "step", "wandb.log"}
        Common(c) == c \in {"model", "loss_fn", "f1_score"}
        perBatch == [i \in 1..(3 * n) |-> <<"model", "loss_fn", "f1_score">>[((i - 1) % 3) + 1]]
    IN /\ pc = "val_done" =>
            /\ \A i \in 1..Len(step_calls) :
                 step_calls[i] \notin {"zero_grad", "step", "wandb.log"}
            /\ optimizer = 0
            /\ wandb = <<>>
            /\ step_calls[1] = "model.eval"
            /\ SelectSeq(step_calls, Common) = perBatch
       /\ pc = "train_done" =>
            /\ SelectSeq(step_calls, Upd) = [i \in 1..(4 * n) |-> pattern[((i - 1) % 4) + 1]]
            /\ optimizer = n
            /\ Len(wandb) = n
            /\ \A i \in 1..n : wandb[i] = [key |-> "batch train loss", loss |-> batches[i].loss]
            /\ step_calls[1] = "model.train"
            /\ SelectSeq(step_calls, Common) = perBatch

\* val_step has run over two batches
C7_Witness ==
    /\ pc = "val_done"
    /\ Len(batches) = 2
    /\ Len(step_calls) = 8

\* C8: train_step and val_step return the sum of the per-batch losses divided
\* by the number of batches, and the sum of the per-batch F1 values divided by
\* the number of batches.
C8_EpochMeans ==
    LET n == Len(batches)
        SumLoss[i \in 0..n] == IF i = 0 THEN 0 ELSE SumLoss[i - 1] + batches[i].loss
        SumF1[i \in 0..n] == IF i = 0 THEN 0 ELSE SumF1[i - 1] + batches[i].f1
    IN pc \in {"train_done", "val_done"} =>
         /\ Len(step_ret) = 2
         /\ step_ret[1].den > 0 /\ step_ret[2].den > 0
         /\ RatEq(step_ret[1], Rat(SumLoss[n], n))
         /\ RatEq(step_ret[2], Rat(SumF1[n], n))

\* train_step over two batches of different loss and different F1
C8_Witness ==
    /\ pc = "train_done"
    /\ Len(batches) = 2
    /\ batches[1].loss = 1 /\ batches[2].loss = 4
    /\ batches[1].f1 = 5 /\ batches[2].f1 = 0
    /\ step_ret = <<Rat(5, 2), Rat(5, 2)>>

\* C9: test_step and test_for_eval on the same batches build the same gold and
\* predicted lists, the per-sample labels of the batches in batch order, of
\* equal length the total number of samples; each calls f1_score once, after
\* the last batch, over those lists; they return the same score, test_for_eval
\* also the two lists; neither computes a loss, updates the optimizer or logs.
C9_TestEvaluations ==
    LET nb == Len(batches)
        \* the samples of the batches i..nb, in order
        Rest[i \in 1..(nb + 1)] == IF i > nb THEN <<>> ELSE batches[i] \o Rest[i + 1]
        all == Rest[1]
        G == [k \in 1..Len(all) |-> all[k].gold]
        P == [k \in 1..Len(all) |-> all[k].pred]
        Total[i \in 0..nb] == IF i = 0 THEN 0 ELSE Total[i - 1] + Len(batches[i])
        CallsOk(cs) ==
            /\ Len(cs) = nb + 2
            /\ cs[Len(cs)] = "f1_score"
            /\ \A i \in 1..(Len(cs) - 1) : cs[i] \in {"inference_mode", "model"}
    IN pc = "test" =>
         /\ test_ret # <<>> =>
              /\ Len(test_ret) = 1
              /\ RatEq(test_ret[1], f1_score(G, P))
              /\ CallsOk(test_calls)
         /\ eval_ret # <<>> =>
              /\ Len(eval_ret) = 3
              /\ eval_ret[2] = G /\ eval_ret[3] = P
              /\ Len(eval_ret[2]) = Total[nb] /\ Len(eval_ret[3]) = Total[nb]
              /\ RatEq(eval_ret[1], f1_score(G, P))
              /\ CallsOk(eval_calls)
         /\ (test_ret # <<>> /\ eval_ret # <<>>) => RatEq(test_ret[1], eval_ret[1])
         /\ optimizer = 0 /\ wandb = <<>>

\* both evaluations have run over two batches of different sizes with a
\* misclassified sample
C9_Witness ==
    /\ pc = "test"
    /\ test_ret # <<>> /\ eval_ret # <<>>
    /\ Len(batches) = 2
    /\ Len(batches[1]) = 2 /\ Len(batches[2]) = 1
    /\ eval_ret[2] = <<0, 1, 1>> /\ eval_ret[3] = <<0, 0, 1>>
====
